---- MODULE Spec2Model ----
(***************************************************************************)
(* Model of sync/ffmpeg.py: output naming (_build_filename), the            *)
(* single-file encode (encode_video_single) and the batch driver            *)
(* (encode_videos).                                                         *)
(*                                                                          *)
(* Floats are carried as integers in thousandths (1.5 s is 1500), so that   *)
(* the two formats the code uses, .2f in the name and .3f in the command,   *)
(* are both computed.  An optional value is << >> (None) or <<v>>.          *)
(* Paths, names and command words are strings.                              *)
(***************************************************************************)
EXTENDS Integers, Sequences, FiniteSets, TLC

VARIABLES
    nm,           \* naming: the last _build_filename / command construction
    fs,           \* the filesystem at the output directory: path -> entry
    pc,           \* where the running call stands
    call,         \* the encode_video_single call in progress or last finished
    prev,         \* the encode_video_single call finished before `call`
    invocations,  \* command strings handed to subprocess.check_call, in order
    n_calls,      \* number of top-level calls made so far
    batch,        \* encode_videos: its arguments and local variables (fs0 is
                  \* the filesystem it was called on)
    encodes       \* encode_videos: the per-file encode calls made, in order

vars == <<nm, fs, pc, call, prev, invocations, n_calls, batch, encodes>>

----------------------------------------------------------------------------
(* Bounds *)

MaxCalls == 2
MaxFiles == 2

----------------------------------------------------------------------------
(* Python values *)

None == << >>

Some(v) == <<v>>

\* truth value of an Optional[float]: None and 0.0 are false
Truthy(x) == x # None /\ x[1] # 0

\* truth value of an Optional[Tuple[int, int]]: only None is false
TruthyTuple(r) == r # None

Abs(n) == IF n < 0 THEN -n ELSE n

Pad2(n) == IF n < 10 THEN "0" \o ToString(n) ELSE ToString(n)

Pad3(n) == IF n < 10 THEN "00" \o ToString(n)
           ELSE IF n < 100 THEN "0" \o ToString(n) ELSE ToString(n)

\* hundredths nearest to a thousandths; an exact tie goes to the even
\* neighbour (the ties of the value sets below are exact binary fractions)
RoundHundredths(a) ==
    LET q == a \div 10
        r == a % 10
    IN  IF r < 5 THEN q
        ELSE IF r > 5 THEN q + 1
        ELSE IF q % 2 = 0 THEN q ELSE q + 1

\* f'{x:.2f}'
Fmt2(ms) ==
    LET h == RoundHundredths(Abs(ms))
    IN  (IF ms < 0 THEN "-" ELSE "") \o ToString(h \div 100) \o "." \o Pad2(h % 100)

\* f'{x:.3f}'
Fmt3(ms) ==
    (IF ms < 0 THEN "-" ELSE "") \o ToString(Abs(ms) \div 1000) \o "."
        \o Pad3(Abs(ms) % 1000)

\* f'{n}' of an int
FmtInt(n) == ToString(n)

Char(s, i) == SubSeq(s, i, i)

RECURSIVE RFind(_, _, _)
\* str.rfind of a one-character string over s[1..i]; 0 when absent
RFind(s, ch, i) ==
    IF i = 0 THEN 0
    ELSE IF Char(s, i) = ch THEN i ELSE RFind(s, ch, i - 1)

RECURSIVE JoinStr(_, _)
\* sep.join(seq)
JoinStr(seq, sep) ==
    IF Len(seq) = 0 THEN ""
    ELSE IF Len(seq) = 1 THEN seq[1]
    ELSE seq[1] \o sep \o JoinStr(Tail(seq), sep)

\* os.path.basename
Basename(p) == SubSeq(p, RFind(p, "/", Len(p)) + 1, Len(p))

RECURSIVE AllDots(_, _, _)
AllDots(p, from, to) ==
    from >= to \/ (Char(p, from) = "." /\ AllDots(p, from + 1, to))

\* os.path.splitext: the last dot of the last component starts the
\* extension, unless only dots precede it in that component
Splitext(p) ==
    LET sepIndex == RFind(p, "/", Len(p))
        dotIndex == RFind(p, ".", Len(p))
    IN  IF dotIndex > sepIndex /\ ~AllDots(p, sepIndex + 1, dotIndex)
        THEN <<SubSeq(p, 1, dotIndex - 1), SubSeq(p, dotIndex, Len(p))>>
        ELSE <<p, "">>

\* os.path.join of a directory and a relative name
PathJoin(dir, name) ==
    IF dir = "" \/ Char(dir, Len(dir)) = "/" THEN dir \o name
    ELSE dir \o "/" \o name

EndsWith(s, suffix) ==
    Len(suffix) <= Len(s)
    /\ SubSeq(s, Len(s) - Len(suffix) + 1, Len(s)) = suffix

StartsWith(s, prefix) ==
    Len(prefix) <= Len(s) /\ SubSeq(s, 1, Len(prefix)) = prefix

----------------------------------------------------------------------------
(* Output naming *)

\* Features with the duration tag appended before the start-offset tag
Features_reordered(start_offset, duration, fps, resolution) ==
    (IF Truthy(duration) THEN <<"t" \o Fmt2(duration[1])>> ELSE << >>)
    \o (IF Truthy(start_offset) THEN <<"ss" \o Fmt2(start_offset[1])>> ELSE << >>)
    \o (IF Truthy(fps) THEN <<"fps" \o Fmt2(fps[1])>> ELSE << >>)
    \o (IF TruthyTuple(resolution)
        THEN <<FmtInt(resolution[1][1]) \o "x" \o FmtInt(resolution[1][2])>>
        ELSE << >>)

\* the features list of _build_filename, in the order it is appended to
Features(start_offset, duration, fps, resolution) ==
    (IF Truthy(start_offset) THEN <<"ss" \o Fmt2(start_offset[1])>> ELSE << >>)
    \o (IF Truthy(duration) THEN <<"t" \o Fmt2(duration[1])>> ELSE << >>)
    \o (IF Truthy(fps) THEN <<"fps" \o Fmt2(fps[1])>> ELSE << >>)
    \o (IF TruthyTuple(resolution)
        THEN <<FmtInt(resolution[1][1]) \o "x" \o FmtInt(resolution[1][2])>>
        ELSE << >>)

\* _build_filename: <<stem, extension>>
BuildFilename(basename, start_offset, duration, fps, resolution) ==
    LET se == Splitext(basename)
        features == Features(start_offset, duration, fps, resolution)
    IN  IF features # << >>
        THEN <<se[1] \o "_[" \o JoinStr(features, "_") \o "]", se[2]>>
        ELSE <<se[1], se[2]>>

----------------------------------------------------------------------------
(* Single-file encode *)

\* the keyword arguments of encode_video_single
Args(video, output_dir, overwrite, save_frames, start_offset, duration, fps, resolution, silent) ==
    [video |-> video, output_dir |-> output_dir, overwrite |-> overwrite,
     save_frames |-> save_frames, start_offset |-> start_offset,
     duration |-> duration, fps |-> fps, resolution |-> resolution,
     silent |-> silent]

\* output_basename, extension of the call
NameOf(a) ==
    BuildFilename(Basename(a.video), a.start_offset, a.duration, a.fps,
                  a.resolution)

\* output_path: a directory in frame mode, a file with the input's
\* extension in video mode
OutputPath(a) ==
    LET name == NameOf(a)
    IN  IF a.save_frames
        THEN PathJoin(a.output_dir, name[1])
        ELSE PathJoin(a.output_dir, name[1] \o name[2])

\* the -ss and -t options
TrimOptions(a) ==
    (IF Truthy(a.start_offset) /\ a.start_offset[1] > 0
     THEN <<"-ss", Fmt3(a.start_offset[1])>> ELSE << >>)
    \o (IF Truthy(a.duration) THEN <<"-t", Fmt3(a.duration[1])>> ELSE << >>)

\* the filters list
Filters(a) ==
    (IF Truthy(a.fps) /\ a.fps[1] > 0
     THEN <<"fps=" \o Fmt3(a.fps[1])>> ELSE << >>)
    \o (IF TruthyTuple(a.resolution)
        THEN <<"scale=" \o FmtInt(a.resolution[1][1]) \o ":"
                 \o FmtInt(a.resolution[1][2])>>
        ELSE << >>)

FilterOptions(a) ==
    LET filters == Filters(a)
    IN  IF filters # << >>
        THEN <<"-filter:v", "\"" \o JoinStr(filters, ", ") \o "\"">>
        ELSE << >>

\* the output_file the command ends with
OutputFile(a, output_path) ==
    IF a.save_frames THEN PathJoin(output_path, "%04d.jpeg") ELSE output_path

\* the cmd list
BuildCmd(a, output_path) ==
    <<"ffmpeg", "-hide_banner", "-y", "-i", a.video, "-map", "0:v">>
    \o TrimOptions(a)
    \o FilterOptions(a)
    \o (IF a.save_frames THEN <<"-q:v", "4">> ELSE << >>)
    \o <<OutputFile(a, output_path)>>

\* cmd_str
CmdStr(cmd) == JoinStr(cmd, " ")

(* The filesystem: a function from the paths that exist to what is there.   *)
(* A directory made by os.makedirs is empty; what the tool writes is named  *)
(* by the command that wrote it, whole when the tool exited 0.              *)

EmptyDir == [kind |-> "dir", by |-> "", whole |-> FALSE]

EmptyFs == [p \in {} |-> EmptyDir]

Exists(f, p) == p \in DOMAIN f

Put(f, p, e) == [q \in DOMAIN f \cup {p} |-> IF q = p THEN e ELSE f[q]]

IsDir(f, p) == Exists(f, p) /\ f[p].kind = "dir"

IsFile(f, p) == Exists(f, p) /\ f[p].kind = "file"

\* Makedirs left out
Makedirs_missing(f, dir, path) == f

\* os.makedirs(path, exist_ok=True) below dir: the missing directories
\* are made, an existing directory is left as it is
Makedirs(f, dir, path) ==
    LET g == IF Exists(f, dir) THEN f ELSE Put(f, dir, EmptyDir)
    IN  IF Exists(g, path) THEN g ELSE Put(g, path, EmptyDir)

\* os.makedirs raises FileExistsError when the path is a regular file
MakedirsRaises(f, path) == IsFile(f, path)

\* SkipExisting testing os.path.isfile
SkipExisting_isfile(overwrite, f, output_path) ==
    ~overwrite /\ IsFile(f, output_path)

\* if not overwrite: if os.path.exists(output_path): return output_path
SkipExisting(overwrite, f, output_path) == ~overwrite /\ Exists(f, output_path)

\* the input files that can be read
Accessible == {"in/video.mp4", "in/clip", "in/clip.avi"}

\* whether the tool is able to write its output
Writable(a, f, output_path) ==
    IF a.save_frames THEN IsDir(f, output_path)
    ELSE IsDir(f, a.output_dir) /\ ~IsDir(f, output_path)

\* what a run of the tool leaves at the output path
Written(a, cmd, whole) ==
    [kind |-> IF a.save_frames THEN "dir" ELSE "file", by |-> CmdStr(cmd),
     whole |-> whole]

\* subprocess.check_call for the started call c: how it ends and the
\* filesystem it leaves.  Exit 0 needs a readable input and a writable
\* output and leaves the whole output; a nonzero exit (CalledProcessError)
\* leaves the filesystem as it was or, when the tool got as far as
\* writing, a partial output; where the command string cannot be started
\* as a program check_call raises FileNotFoundError and nothing is written.
ToolOutcomes(c, f) ==
    LET can == c.args.video \in Accessible /\ Writable(c.args, f, c.output_path)
    IN  (IF can
         THEN {[result |-> "ok",
                fs |-> Put(f, c.output_path, Written(c.args, c.cmd, TRUE))],
               [result |-> "CalledProcessError",
                fs |-> Put(f, c.output_path, Written(c.args, c.cmd, FALSE))]}
         ELSE {})
        \cup {[result |-> "CalledProcessError", fs |-> f],
              [result |-> "FileNotFoundError", fs |-> f]}

\* the record kept of one encode_video_single call: fs0 is the filesystem
\* the call found, inv0 the number of tool invocations made before it
CallRecord(a, output_path, f, skipped, result) ==
    [args |-> a, output_path |-> output_path, skipped |-> skipped,
     cmd |-> IF skipped THEN << >> ELSE BuildCmd(a, output_path),
     result |-> result, fs0 |-> f, inv0 |-> 0]

NoArgs == Args("", "", FALSE, FALSE, None, None, None, None, FALSE)

NoCall ==
    [args |-> NoArgs, output_path |-> "", skipped |-> FALSE, cmd |-> << >>,
     result |-> "none", fs0 |-> EmptyFs, inv0 |-> 0]

\* encode_video_single up to the point where the tool is started: the
\* call either returns the existing output, or fails to make the frame
\* directory, or starts the tool (result "running")
EncodeBegin(a, f) ==
    LET output_path == OutputPath(a)
    IN  IF SkipExisting(a.overwrite, f, output_path)
        THEN [call |-> CallRecord(a, output_path, f, TRUE, "ok"), fs |-> f]
        ELSE IF a.save_frames /\ MakedirsRaises(f, output_path)
        THEN [call |-> CallRecord(a, output_path, f, FALSE, "FileExistsError"),
              fs |-> f]
        ELSE [call |-> CallRecord(a, output_path, f, FALSE, "running"),
              fs |-> IF a.save_frames
                     THEN Makedirs(f, a.output_dir, output_path) ELSE f]

----------------------------------------------------------------------------
(* Inputs *)

OutDir == "out"

SingleVideos == {"in/video.mp4", "in/clip"}

\* <<start_offset, duration, fps, resolution>>
SingleParams ==
    {<<None, None, None, None>>,
     <<Some(1500), Some(2000), Some(30000), Some(<<640, 480>>)>>}

SingleArgs ==
    {Args(v, OutDir, ow, sf, p[1], p[2], p[3], p[4], TRUE) :
        v \in SingleVideos, ow \in BOOLEAN, sf \in BOOLEAN, p \in SingleParams}

NoName == [built |-> FALSE, args |-> NoArgs, stem |-> "", extension |-> "",
           cmd |-> << >>]

NoBatch ==
    [active |-> FALSE, video_files |-> << >>, align_info |-> << >>,
     overwrite |-> FALSE, save_frames |-> FALSE, fps |-> None,
     resolution |-> None, silent |-> FALSE, i |-> 0, file_kwargs |-> << >>,
     durations |-> << >>, duration |-> None, outputs |-> << >>,
     ret |-> None, error |-> "none", fs0 |-> EmptyFs]

\* the output directory is there or not when the program starts
Init ==
    /\ nm = NoName
    /\ fs \in {EmptyFs, Put(EmptyFs, OutDir, EmptyDir)}
    /\ pc = "idle"
    /\ call = NoCall
    /\ prev = NoCall
    /\ invocations = << >>
    /\ n_calls = 0
    /\ batch = NoBatch
    /\ encodes = << >>

----------------------------------------------------------------------------
(* A caller of encode_video_single *)

\* encode_video_single(a) is called and runs until it returns, raises or
\* has started the tool
SingleCall(a) ==
    /\ pc = "idle"
    /\ ~batch.active
    /\ n_calls < MaxCalls
    /\ n_calls' = n_calls + 1
    /\ prev' = call
    /\ LET r == EncodeBegin(a, fs)
       IN  /\ call' = [r.call EXCEPT !.inv0 = Len(invocations)]
           /\ fs' = r.fs
           /\ IF r.call.result = "running"
              THEN /\ pc' = "running"
                   /\ invocations' = Append(invocations, CmdStr(r.call.cmd))
              ELSE /\ pc' = "idle"
                   /\ invocations' = invocations
    /\ UNCHANGED <<nm, batch, encodes>>

\* the tool exits: encode_video_single returns output_path or
\* check_call raises CalledProcessError
SingleToolExit ==
    /\ pc = "running"
    /\ ~batch.active
    /\ \E o \in ToolOutcomes(call, fs) :
          /\ fs' = o.fs
          /\ call' = [call EXCEPT !.result = o.result]
    /\ pc' = "idle"
    /\ UNCHANGED <<nm, prev, invocations, n_calls, batch, encodes>>

\* the program calls encode_video_single, with any of the inputs
CallSingle ==
    /\ pc = "idle"
    /\ \E a \in SingleArgs : SingleCall(a)

Next ==
    \/ CallSingle
    \/ SingleToolExit

Spec == Init /\ [][Next]_vars

----------------------------------------------------------------------------
(* Naming and command construction as functions of the arguments *)

NameVideos == {"in/video.mp4", "in/clip", "in/a.tar.gz", "in/.hidden"}

NameOffsets == {None, Some(0), Some(1001), Some(1002), Some(1500), Some(-1000)}

NameDurations == {None, Some(0), Some(2000), Some(2125)}

NameFps == {None, Some(0), Some(30000), Some(-1000)}

NameResolutions == {None, Some(<<640, 480>>), Some(<<0, 0>>)}

NameArgs ==
    {Args(v, OutDir, FALSE, sf, ss, t, r, res, TRUE) :
        v \in NameVideos, sf \in BOOLEAN, ss \in NameOffsets,
        t \in NameDurations, r \in NameFps, res \in NameResolutions}

\* the name and the command encode_video_single computes for a
BuildName(a) ==
    /\ ~nm.built
    /\ nm' = [built |-> TRUE, args |-> a, stem |-> NameOf(a)[1],
              extension |-> NameOf(a)[2], cmd |-> BuildCmd(a, OutputPath(a))]
    /\ UNCHANGED <<fs, pc, call, prev, invocations, n_calls, batch, encodes>>

NextName == \E a \in NameArgs : BuildName(a)

SpecName == Init /\ [][NextName]_vars

----------------------------------------------------------------------------
(* Batch driver *)

BatchVideos == {"in/video.mp4", "in/clip.avi", "in/gone.mp4"}

\* <<orig_duration, trim>>
AlignTimes == {<<10000, 2000>>, <<12000, 5000>>, <<5000, 5000>>, <<8000, 0>>}

AlignRecords ==
    {[file |-> f, orig_duration |-> t[1], trim |-> t[2]] :
        f \in {"sync/video.mp4", "sync/clip.avi"}, t \in AlignTimes}

VideoLists == UNION {[1..n -> BatchVideos] : n \in 0..MaxFiles}

\* align_info: None, or one record per input file
AlignLists(n) == {None} \cup (IF n > 0 THEN [1..n -> AlignRecords] ELSE {})

\* <<fps, resolution>>
BatchShared == {<<None, None>>, <<Some(30000), Some(<<640, 480>>)>>}

\* min(durations)
Min(seq) ==
    CHOOSE m \in {seq[k] : k \in 1..Len(seq)} :
        \A k \in 1..Len(seq) : m <= seq[k]

\* os.path.getatime(video_file) raises OSError
GetatimeRaises(video_file) == video_file \notin Accessible

\* BasenameMatches with the assert compiled away
BasenameMatches_always(video_file, video_info) == TRUE

\* the assert on the two basenames
BasenameMatches(video_file, video_info) ==
    Basename(video_file) = Basename(video_info.file)

\* encode_videos is called: the empty list returns at once
BatchCall(vf, ai, ow, sf, sh) ==
    /\ pc = "idle"
    /\ ~batch.active
    /\ n_calls' = n_calls + 1
    /\ batch' = [NoBatch EXCEPT !.active = TRUE, !.video_files = vf,
                 !.align_info = ai, !.overwrite = ow, !.save_frames = sf,
                 !.fps = sh[1], !.resolution = sh[2], !.silent = TRUE,
                 !.i = 1, !.fs0 = fs,
                 !.ret = IF Len(vf) = 0 THEN Some(<< >>) ELSE None]
    /\ pc' = IF Len(vf) = 0 THEN "returned" ELSE "validate"
    /\ UNCHANGED <<nm, fs, call, prev, invocations, encodes>>

\* one round of the first loop: the access check, the order check and
\* the file's keyword arguments
ValidateStep ==
    /\ pc = "validate"
    /\ LET i == batch.i
           video_file == batch.video_files[i]
           last == i = Len(batch.video_files)
       IN  IF GetatimeRaises(video_file)
           THEN /\ pc' = "raised"
                /\ batch' = [batch EXCEPT !.error = "OSError"]
           ELSE IF batch.align_info # << >>
           THEN LET video_info == batch.align_info[i]
                IN  IF ~BasenameMatches(video_file, video_info)
                    THEN /\ pc' = "raised"
                         /\ batch' = [batch EXCEPT !.error = "AssertionError"]
                    ELSE /\ pc' = IF last THEN "shared" ELSE "validate"
                         /\ batch' =
                              [batch EXCEPT
                                 !.durations =
                                     Append(@, video_info.orig_duration
                                                 - video_info.trim),
                                 !.file_kwargs =
                                     Append(@, <<video_file,
                                                 Some(video_info.trim)>>),
                                 !.i = i + 1]
           ELSE /\ pc' = IF last THEN "shared" ELSE "validate"
                /\ batch' = [batch EXCEPT
                               !.file_kwargs = Append(@, <<video_file, None>>),
                               !.i = i + 1]
    /\ UNCHANGED <<nm, fs, call, prev, invocations, n_calls, encodes>>

\* base_kwargs.update(duration=min_duration)
SharedDuration ==
    /\ pc = "shared"
    /\ pc' = "encode"
    /\ batch' = [batch EXCEPT
                   !.duration = IF batch.align_info # << >>
                                THEN Some(Min(batch.durations)) ELSE None,
                   !.i = 1]
    /\ UNCHANGED <<nm, fs, call, prev, invocations, n_calls, encodes>>

\* BatchArgs reading the first file's keyword arguments for every file
BatchArgs_first(b, i) ==
    Args(b.file_kwargs[i][1], OutDir, b.overwrite, b.save_frames,
         b.file_kwargs[1][2], b.duration, b.fps, b.resolution, b.silent)

\* the arguments of the i-th encode_video_single call
BatchArgs(b, i) ==
    Args(b.file_kwargs[i][1], OutDir, b.overwrite, b.save_frames,
         b.file_kwargs[i][2], b.duration, b.fps, b.resolution, b.silent)

\* one round of the second loop up to the start of the tool
EncodeStep ==
    /\ pc = "encode"
    /\ batch.i <= Len(batch.file_kwargs)
    /\ LET a == BatchArgs(batch, batch.i)
           r == EncodeBegin(a, fs)
           c == [r.call EXCEPT !.inv0 = Len(invocations)]
       IN  /\ prev' = call
           /\ call' = c
           /\ fs' = r.fs
           /\ encodes' = Append(encodes, [idx |-> batch.i, call |-> c])
           /\ IF r.call.result = "running"
              THEN /\ pc' = "running"
                   /\ invocations' = Append(invocations, CmdStr(r.call.cmd))
                   /\ batch' = batch
              ELSE IF r.call.result = "ok"
              THEN /\ pc' = "encode"
                   /\ invocations' = invocations
                   /\ batch' = [batch EXCEPT
                                  !.outputs = Append(@, r.call.output_path),
                                  !.i = @ + 1]
              ELSE /\ pc' = "raised"
                   /\ invocations' = invocations
                   /\ batch' = [batch EXCEPT !.error = r.call.result]
    /\ UNCHANGED <<nm, n_calls>>

\* BatchToolExit with the error swallowed and the loop going on
BatchToolExit_continue ==
    /\ pc = "running"
    /\ batch.active
    /\ \E o \in ToolOutcomes(call, fs) :
          /\ fs' = o.fs
          /\ call' = [call EXCEPT !.result = o.result]
    /\ pc' = "encode"
    /\ batch' = [batch EXCEPT !.outputs = Append(@, call.output_path),
                              !.i = @ + 1]
    /\ UNCHANGED <<nm, prev, invocations, n_calls, encodes>>

\* the tool exits: the output path is appended, or the error leaves
\* encode_videos
BatchToolExit ==
    /\ pc = "running"
    /\ batch.active
    /\ \E o \in ToolOutcomes(call, fs) :
          /\ fs' = o.fs
          /\ call' = [call EXCEPT !.result = o.result]
          /\ IF o.result = "ok"
             THEN /\ pc' = "encode"
                  /\ batch' = [batch EXCEPT
                                 !.outputs = Append(@, call.output_path),
                                 !.i = @ + 1]
             ELSE /\ pc' = "raised"
                  /\ batch' = [batch EXCEPT !.error = o.result]
    /\ UNCHANGED <<nm, prev, invocations, n_calls, encodes>>

\* return outputs
BatchReturn ==
    /\ pc = "encode"
    /\ batch.i > Len(batch.file_kwargs)
    /\ pc' = "returned"
    /\ batch' = [batch EXCEPT !.ret = Some(batch.outputs)]
    /\ UNCHANGED <<nm, fs, call, prev, invocations, n_calls, encodes>>

\* the program calls encode_videos once, with any of the inputs
CallBatch ==
    /\ pc = "idle"
    /\ \E vf \in VideoLists, ow \in BOOLEAN, sf \in BOOLEAN, sh \in BatchShared :
          \E ai \in AlignLists(Len(vf)) : BatchCall(vf, ai, ow, sf, sh)

NextBatch ==
    \/ CallBatch
    \/ ValidateStep
    \/ SharedDuration
    \/ EncodeStep
    \/ BatchToolExit
    \/ BatchReturn

SpecBatch == Init /\ [][NextBatch]_vars

----------------------------------------------------------------------------
(* What the names are expected to be, written out for the inputs used *)

\* the two-decimal text of the values used, as Python prints them
TwoDecimals(ms) ==
    CASE ms = 0 -> "0.00"
      [] ms = 1001 -> "1.00"
      [] ms = 1002 -> "1.00"
      [] ms = 1500 -> "1.50"
      [] ms = -1000 -> "-1.00"
      [] ms = 2000 -> "2.00"
      [] ms = 2125 -> "2.12"
      [] ms = 30000 -> "30.00"

\* the input's name without directory and extension, and its extension
StemBase(video) ==
    CASE video = "in/video.mp4" -> "video"
      [] video = "in/clip" -> "clip"
      [] video = "in/a.tar.gz" -> "a.tar"
      [] video = "in/.hidden" -> ".hidden"

ExtensionOf(video) ==
    CASE video = "in/video.mp4" -> ".mp4"
      [] video = "in/clip" -> ""
      [] video = "in/a.tar.gz" -> ".gz"
      [] video = "in/.hidden" -> ""

\* whether a numeric parameter gets a tag: when it is set, and, unless
\* zeroCounts, only when it is not zero
Tagged(x, zeroCounts) == x # None /\ (zeroCounts \/ x[1] # 0)

\* the tags in the order start-offset, duration, fps, resolution
ExpectedTags(a, zeroCounts) ==
    (IF Tagged(a.start_offset, zeroCounts)
     THEN <<"ss" \o TwoDecimals(a.start_offset[1])>> ELSE << >>)
    \o (IF Tagged(a.duration, zeroCounts)
        THEN <<"t" \o TwoDecimals(a.duration[1])>> ELSE << >>)
    \o (IF Tagged(a.fps, zeroCounts)
        THEN <<"fps" \o TwoDecimals(a.fps[1])>> ELSE << >>)
    \o (IF a.resolution # None
        THEN <<ToString(a.resolution[1][1]) \o "x"
                 \o ToString(a.resolution[1][2])>>
        ELSE << >>)

ExpectedStem(a, zeroCounts) ==
    LET tags == ExpectedTags(a, zeroCounts)
    IN  IF tags = << >> THEN StemBase(a.video)
        ELSE StemBase(a.video) \o "_[" \o JoinStr(tags, "_") \o "]"

\* the output path expected of a call
ExpectedPath(a) ==
    "out/" \o ExpectedStem(a, FALSE)
        \o (IF a.save_frames THEN "" ELSE ExtensionOf(a.video))

----------------------------------------------------------------------------
(* Properties of the single-file encode, under Spec *)

\* the call repeats the call before it, with overwrite=false
RepeatsPrev ==
    /\ prev.result # "none"
    /\ call.result # "none"
    /\ call.args = [prev.args EXCEPT !.overwrite = FALSE]

\* C1: when a call has run the tool to exit 0 and the same call is made
\* again with overwrite=false, the second call returns the same output
\* path without invoking the tool: the tool has been invoked once for
\* the two calls.
C1_Idempotent ==
    (prev.result = "ok" /\ ~prev.skipped /\ RepeatsPrev)
        => /\ call.skipped
           /\ call.result = "ok"
           /\ pc = "idle"
           /\ call.output_path = prev.output_path
           /\ Len(invocations) = prev.inv0 + 1

C1_Witness ==
    /\ prev.result = "ok" /\ ~prev.skipped /\ RepeatsPrev
    /\ ~prev.args.save_frames
    /\ prev.args.overwrite
    /\ call.skipped

\* C8: in frame mode the output path is output_dir/stem, a directory that
\* exists when the tool is started and when the call returns; in video
\* mode it is output_dir/stem+extension, ending in the input's extension,
\* and the call has made no directory, neither before the tool is started
\* nor after; a call skipped for an existing output leaves the filesystem
\* as it found it.
C8_ModeBranching ==
    /\ (call.result # "none" /\ call.args.save_frames)
          => /\ call.output_path = ExpectedPath(call.args)
             /\ (pc = "running" => IsDir(fs, call.output_path))
             /\ (call.result = "ok" /\ ~call.skipped
                    => IsDir(fs, call.output_path))
    /\ (call.result # "none" /\ ~call.args.save_frames)
          => /\ call.output_path = ExpectedPath(call.args)
             /\ EndsWith(call.output_path, ExtensionOf(call.args.video))
             /\ (pc = "running" => fs = call.fs0)
             /\ \A p \in DOMAIN fs : IsDir(fs, p) => IsDir(call.fs0, p)
    /\ call.skipped => (fs = call.fs0 /\ pc = "idle")

C8_Witness ==
    /\ pc = "running"
    /\ call.args.save_frames
    /\ ~Exists(call.fs0, call.output_path)
    /\ IsDir(fs, call.output_path)
    /\ ~Exists(call.fs0, call.args.output_dir)

\* C9, in frame mode: after a call has raised because the tool exited
\* nonzero, the same call repeated with overwrite=false invokes the tool
\* again: it is not skipped as an existing output.
C9_FailedFrameEncodeNotCached ==
    (prev.result = "CalledProcessError" /\ prev.args.save_frames
        /\ RepeatsPrev)
        => ~call.skipped

----------------------------------------------------------------------------
(* Properties of naming, under SpecName *)

ParamsOf(a) == <<a.start_offset, a.duration, a.fps, a.resolution>>

\* the parameter sets the data model allows: start_offset >= 0,
\* duration > 0, fps > 0
DataModelParams ==
    {q \in NameOffsets \X NameDurations \X NameFps \X NameResolutions :
        /\ q[1] = None \/ q[1][1] >= 0
        /\ q[2] = None \/ q[2][1] > 0
        /\ q[3] = None \/ q[3][1] > 0}

\* C2: for one input, no other parameter set of the data model yields the
\* stem this parameter set yields.
C2_CollisionFree ==
    (nm.built /\ ParamsOf(nm.args) \in DataModelParams)
        => \A q \in DataModelParams :
              q # ParamsOf(nm.args)
                 => BuildFilename(Basename(nm.args.video), q[1], q[2], q[3],
                                  q[4])[1] # nm.stem

Contains(s, sub) ==
    \E i \in 1..(Len(s) - Len(sub) + 1) : SubSeq(s, i, i + Len(sub) - 1) = sub

HasOption(cmd, opt) == \E i \in 1..Len(cmd) : cmd[i] = opt

OptionValue(cmd, opt) == cmd[(CHOOSE i \in 1..Len(cmd) : cmd[i] = opt) + 1]

\* the argument of -filter:v, empty when the command has none
FilterChain(cmd) ==
    IF HasOption(cmd, "-filter:v") THEN OptionValue(cmd, "-filter:v") ELSE ""

\* a tag starts the bracket or follows an underscore (no base name of the
\* inputs has a bracket, an underscore or an x)
HasTag(stem, tag) == Contains(stem, "[" \o tag) \/ Contains(stem, "_" \o tag)

\* C10: the stem has the ss tag exactly when the command has -ss, the t
\* tag exactly when it has -t, the fps tag exactly when the filter chain
\* has the fps filter, the WIDTHxHEIGHT tag exactly when it has the scale
\* filter.
C10_NameAgreesWithCommand ==
    nm.built
        => /\ HasTag(nm.stem, "ss") <=> HasOption(nm.cmd, "-ss")
           /\ HasTag(nm.stem, "t") <=> HasOption(nm.cmd, "-t")
           /\ HasTag(nm.stem, "fps") <=> Contains(FilterChain(nm.cmd), "fps=")
           /\ Contains(nm.stem, "x") <=> Contains(FilterChain(nm.cmd), "scale=")

----------------------------------------------------------------------------
(* Properties of the batch driver, under SpecBatch *)

\* the three-decimal text of the trims and clip durations of AlignTimes
ThreeDecimals(ms) ==
    CASE ms = 0 -> "0.000"
      [] ms = 2000 -> "2.000"
      [] ms = 5000 -> "5.000"
      [] ms = 7000 -> "7.000"
      [] ms = 8000 -> "8.000"

\* the least orig_duration - trim of the records
MinClip(ai) ==
    CHOOSE m \in {ai[k].orig_duration - ai[k].trim : k \in 1..Len(ai)} :
        \A k \in 1..Len(ai) : m <= ai[k].orig_duration - ai[k].trim

\* the command starts the clip at trim: it seeks there, or has no seek
\* and trim is zero
StartApplied(cmd, trim) ==
    IF HasOption(cmd, "-ss") THEN OptionValue(cmd, "-ss") = ThreeDecimals(trim)
    ELSE trim = 0

\* the command limits the clip to d
DurationApplied(cmd, d) ==
    HasOption(cmd, "-t") /\ OptionValue(cmd, "-t") = ThreeDecimals(d)

\* C4: with alignment records, every per-file encode is given the least
\* orig_duration - trim of all records as its duration and its own
\* record's trim as its start offset, and every command that is built
\* starts at that trim and is limited to that duration.
C4_TrimAndDurationApplied ==
    (batch.active /\ batch.align_info # << >>)
        => \A k \in 1..Len(encodes) :
              LET c == encodes[k].call
                  rec == batch.align_info[k]
                  m == MinClip(batch.align_info)
              IN  /\ c.args.duration = Some(m)
                  /\ c.args.start_offset = Some(rec.trim)
                  /\ ~c.skipped => /\ StartApplied(c.cmd, rec.trim)
                                   /\ DurationApplied(c.cmd, m)

\* an input that cannot be read, or a record naming another file than
\* the input at its index
HasInvalidInput(b) ==
    \E k \in 1..Len(b.video_files) :
        \/ b.video_files[k] \notin Accessible
        \/ /\ b.align_info # << >>
           /\ Basename(b.video_files[k]) # Basename(b.align_info[k].file)

\* C5: a batch with an unreadable input or a misnamed alignment record
\* never gets past validation, and when validation raises no tool has
\* been invoked, no encode begun and the filesystem is as encode_videos
\* found it.
C5_ValidationBeforeEncoding ==
    /\ (batch.active /\ HasInvalidInput(batch))
          => /\ pc \in {"validate", "raised"}
             /\ invocations = << >>
             /\ encodes = << >>
             /\ fs = batch.fs0
    /\ (pc = "raised" /\ batch.error \in {"OSError", "AssertionError"})
          => /\ HasInvalidInput(batch)
             /\ batch.ret = None

C5_Witness ==
    /\ pc = "raised"
    /\ batch.error = "AssertionError"
    /\ batch.i = 2
    /\ ~Exists(fs, OutDir)

\* check_call has raised in the encode of file batch.i
ToolErrors == {"CalledProcessError", "FileNotFoundError"}

ToolFailed == pc = "raised" /\ batch.error \in ToolErrors

\* what C6 says besides the earlier outputs: the error of a failed tool
\* run leaves encode_videos, the failed file is the last one an encode
\* was begun for, and nothing is returned
FailureAborts ==
    /\ (batch.active /\ call.result \in ToolErrors)
          => (ToolFailed /\ batch.error = call.result)
    /\ ToolFailed => /\ Len(encodes) = batch.i
                     /\ encodes[batch.i].idx = batch.i
                     /\ Len(batch.outputs) = batch.i - 1
                     /\ batch.ret = None
                     /\ \A j \in 1..Len(batch.outputs) :
                           Exists(fs, batch.outputs[j])

\* C6 as stated: when the tool fails for file k the error propagates, no
\* later file is encoded, nothing is returned, and the outputs of the
\* files before k are on disk as they were before the encode of k began.
C6_EarlierOutputsUnchanged ==
    /\ FailureAborts
    /\ ToolFailed
          => \A j \in 1..Len(batch.outputs) :
                fs[batch.outputs[j]] = call.fs0[batch.outputs[j]]

\* C6 as amended: when the tool fails for file k the error propagates,
\* no later file is encoded, nothing is returned, the outputs of the
\* files before k are still on disk, and those at another path than the
\* output path of k are as they were before the encode of k began.
C6_OtherOutputsUnchanged ==
    /\ FailureAborts
    /\ ToolFailed
          => \A j \in 1..Len(batch.outputs) :
                batch.outputs[j] # call.output_path
                   => fs[batch.outputs[j]] = call.fs0[batch.outputs[j]]

C6_Witness ==
    /\ ToolFailed
    /\ batch.i = 2
    /\ batch.outputs[1] # call.output_path
    /\ Exists(fs, call.output_path)
    /\ ~fs[call.output_path].whole
    /\ fs[batch.outputs[1]].whole

\* the output path of an input: below OutDir, named after the input
NamedAfter(path, video) ==
    StartsWith(path, "out/" \o (CASE video = "in/video.mp4" -> "video"
                                  [] video = "in/clip.avi" -> "clip"
                                  [] video = "in/gone.mp4" -> "gone"))

\* C7: the encodes are begun one per input file in input order, each
\* after the one before has finished; on return the result has one path
\* per input, the i-th being the output path of the i-th input's encode;
\* the empty list returns the empty list with no tool invocation and the
\* filesystem untouched.
C7_OncePerFileInOrder ==
    /\ batch.active
          => /\ Len(encodes) <= Len(batch.video_files)
             /\ \A k \in 1..Len(encodes) :
                   /\ encodes[k].idx = k
                   /\ encodes[k].call.args.video = batch.video_files[k]
                   /\ encodes[k].call.args.start_offset
                         = (IF batch.align_info # << >>
                            THEN Some(batch.align_info[k].trim) ELSE None)
             /\ Len(batch.outputs) <= Len(encodes)
             /\ Len(encodes) <= Len(batch.outputs) + 1
             /\ pc = "running" => Len(encodes) = Len(batch.outputs) + 1
             /\ Len(invocations) <= Len(encodes)
    /\ pc = "returned"
          => /\ batch.ret # None
             /\ Len(batch.ret[1]) = Len(batch.video_files)
             /\ Len(encodes) = Len(batch.video_files)
             /\ \A k \in 1..Len(batch.video_files) :
                   /\ batch.ret[1][k] = encodes[k].call.output_path
                   /\ NamedAfter(batch.ret[1][k], batch.video_files[k])
                   /\ Exists(fs, batch.ret[1][k])
    /\ (batch.active /\ Len(batch.video_files) = 0)
          => /\ pc = "returned"
             /\ batch.ret = Some(<< >>)
             /\ invocations = << >>
             /\ encodes = << >>
             /\ fs = batch.fs0

C7_Witness ==
    /\ pc = "returned"
    /\ Len(batch.ret[1]) = 2
    /\ batch.video_files = <<"in/clip.avi", "in/video.mp4">>
    /\ batch.align_info # << >>
    /\ batch.align_info[1].trim # batch.align_info[2].trim
    /\ Len(invocations) = 2

====
